---- MODULE Spec2Model ----
(***************************************************************************)
(* The Radicchi community-detection algorithm of                           *)
(* circulo/algorithms/radicchi.py as a state machine.                      *)
(*                                                                         *)
(* A graph is a record [n, es]: vertices 0..n-1 and a set of edges, each   *)
(* a tuple <<u, v>> with u < v (igraph's e.tuple of a simple undirected    *)
(* graph).  A working graph carries in addition the vertex attribute 'id', *)
(* the function ids from working index to original id.  A Python list is a *)
(* sequence; min_edges, whose only uses are insensitive to order and which *)
(* holds no duplicates, is kept as a set.  An optional value is <<>>       *)
(* (None) or <<x>>.  An edge score (a Python float) is the reduced         *)
(* fraction [num, den], with den = 0 for float('inf').                     *)
(***************************************************************************)
EXTENDS Integers, Sequences, FiniteSets, TLC

\* Largest vertex count of the exhaustively enumerated input graphs.
MaxV == 4

VARIABLES
    G,            \* the graph passed to radicchi
    G_entry,      \* the graph as it was when radicchi was entered
    measure,      \* the measure argument of radicchi
    pc,           \* position of the top-level call
    stack,        \* activation records of radicchi_internal, innermost last
    result,       \* what the level-0 call of radicchi_internal returned
    clustering,   \* the membership list radicchi builds
    run,          \* 1 in the first call of radicchi on G, 2 in the second
    first,        \* measure and membership list of the first call
    nodes,        \* argument of a direct call of a community predicate
    outcome       \* what that call produced

vars == <<G, G_entry, measure, pc, stack, result, clustering, run, first,
          nodes, outcome>>

None == <<>>
Some(x) == <<x>>

----------------------------------------------------------------------------
\* Arithmetic and list helpers.

Min(a, b) == IF a < b THEN a ELSE b

MinOf(S) == CHOOSE x \in S : \A y \in S : x <= y

RECURSIVE Gcd(_, _)
Gcd(a, b) == IF b = 0 THEN a ELSE Gcd(b, a % b)

Abs(a) == IF a < 0 THEN -a ELSE a

\* The float a / b (b # 0) as a reduced fraction with positive denominator.
Frac(a, b) ==
    LET d == Gcd(Abs(a), Abs(b))
        s == IF b < 0 THEN -1 ELSE 1
    IN  [num |-> s * (a \div d), den |-> s * (b \div d)]

Inf == [num |-> 1, den |-> 0]

\* x < y on floats (inf included).
Less(x, y) == x.num * y.den < y.num * x.den

\* Python truth value of "not x" for x None or a float.
Not(x) == x = None \/ (x[1].den # 0 /\ x[1].num = 0)

\* sorted list of a set of integers
RECURSIVE SortedList(_)
SortedList(S) ==
    IF S = {} THEN <<>>
    ELSE LET m == MinOf(S) IN <<m>> \o SortedList(S \ {m})

Range(s) == {s[i] : i \in 1..Len(s)}

\* sum(lists, [])
RECURSIVE Concat(_)
Concat(ls) == IF ls = <<>> THEN <<>> ELSE Head(ls) \o Concat(Tail(ls))

\* sum of a list of integers
RECURSIVE Sum(_)
Sum(s) == IF s = <<>> THEN 0 ELSE Head(s) + Sum(Tail(s))

----------------------------------------------------------------------------
\* The igraph operations the algorithm uses.

Vertices(g) == 0..(g.n - 1)

\* Graph.neighbors
Neighbors(g, v) ==
    {w \in Vertices(g) : <<v, w>> \in g.es \/ <<w, v>> \in g.es}

\* Graph.degree of one vertex
Degree(g, v) == Cardinality(Neighbors(g, v))

RECURSIVE Reach(_, _)
Reach(g, S) ==
    LET T == S \cup UNION {Neighbors(g, v) : v \in S}
    IN  IF T = S THEN S ELSE Reach(g, T)

RECURSIVE OrderComponents(_)
OrderComponents(C) ==
    IF C = {} THEN <<>>
    ELSE LET c == CHOOSE x \in C : \A y \in C : MinOf(x) <= MinOf(y)
         IN  <<SortedList(c)>> \o OrderComponents(C \ {c})

\* Graph.components: the connected components as lists of vertex indices,
\* each ascending, in the order of their smallest vertex.
Components(g) == OrderComponents({Reach(g, {v}) : v \in Vertices(g)})

\* Graph.subgraph: the induced subgraph; the kept vertices are renumbered
\* in ascending order of their index.
Subgraph(g, vs) ==
    LET keep == SortedList(Range(vs))
        new(v) == CHOOSE j \in 1..Len(keep) : keep[j] = v
    IN  [n  |-> Len(keep),
         es |-> {<<new(e[1]) - 1, new(e[2]) - 1>> :
                   e \in {x \in g.es : x[1] \in Range(vs) /\ x[2] \in Range(vs)}}]

\* Graph.subgraph of a working graph: the vertices keep their attribute 'id'.
SubgraphWithIds(g, vs) ==
    LET keep == SortedList(Range(vs))
        s == Subgraph(g, vs)
    IN  [n   |-> s.n,
         es  |-> s.es,
         ids |-> [j \in 0..(Len(keep) - 1) |-> g.ids[keep[j + 1]]]]

\* Graph.delete_edges
DeleteEdges(g, es) == [g EXCEPT !.es = g.es \ es]

----------------------------------------------------------------------------
\* Edge scores.

\* The ratio turned upside down.
edge_clustering_coefficient_3_inverted(u, v, degree, neighbors) ==
    LET udeg == degree[u]
        vdeg == degree[v]
        mdeg == Min(udeg - 1, vdeg - 1)
    IN  IF mdeg = 0 THEN Inf
        ELSE LET cdeg == Cardinality(neighbors[u] \cap neighbors[v])
             IN  Frac(mdeg, cdeg + 1)

edge_clustering_coefficient_3(u, v, degree, neighbors) ==
    LET udeg == degree[u]
        vdeg == degree[v]
        mdeg == Min(udeg - 1, vdeg - 1)
    IN  IF mdeg = 0 THEN Inf
        ELSE LET cdeg == Cardinality(neighbors[u] \cap neighbors[v])
             IN  Frac(cdeg + 1, mdeg)

edge_clustering_coefficient_4(u, v, degree, neighbors) ==
    LET udeg == degree[u]
        vdeg == degree[v]
        mdeg == (udeg - 1) * (vdeg - 1)
    IN  IF mdeg = 0 THEN Inf
        ELSE LET uneighbors == neighbors[u] \ {v}
                 vneighbors == neighbors[v] \ {u}
                 squares(w) == Cardinality((neighbors[w] \ {u}) \cap vneighbors)
                 num_squares == Sum([j \in 1..Cardinality(uneighbors) |->
                                       squares(SortedList(uneighbors)[j])])
             IN  Frac(num_squares + 1, mdeg)

\* The scorer radicchi_internal binds from its clustering argument.
edge_clustering_coefficient(clus, u, v, degree, neighbors) ==
    IF clus = 3 THEN edge_clustering_coefficient_3(u, v, degree, neighbors)
    ELSE edge_clustering_coefficient_4(u, v, degree, neighbors)

----------------------------------------------------------------------------
\* Community predicates, on the original graph and a list of original ids.

is_strong_community(g, ns) ==
    LET subgraph == Subgraph(g, ns)
        degree == [i \in 1..Len(ns) |-> Degree(g, ns[i])]
        community_degree == [i \in 1..subgraph.n |-> Degree(subgraph, i - 1)]
    IN  \A i \in 1..Len(ns) :
            ~(community_degree[i] <= degree[i] - community_degree[i])

\* The internal sum compared with the total instead of the external sum.
is_weak_community_total(g, ns) ==
    LET subgraph == Subgraph(g, ns)
        degree == [i \in 1..Len(ns) |-> Degree(g, ns[i])]
        indegree == [i \in 1..subgraph.n |-> Degree(subgraph, i - 1)]
        tsum == Sum(degree)
        insum == Sum(indegree)
    IN  insum > tsum

is_weak_community(g, ns) ==
    LET subgraph == Subgraph(g, ns)
        degree == [i \in 1..Len(ns) |-> Degree(g, ns[i])]
        indegree == [i \in 1..subgraph.n |-> Degree(subgraph, i - 1)]
        tsum == Sum(degree)
        insum == Sum(indegree)
        outsum == tsum - insum
    IN  insum > outsum

is_community(community_measure, g, ns) ==
    IF community_measure = "strong" THEN is_strong_community(g, ns)
    ELSE is_weak_community(g, ns)

\* One qualifying component taken as enough.
PruneActive_one(community_indices) == Len(community_indices) > 0

\* len(community_indices) > 1
PruneActive(community_indices) == Len(community_indices) > 1

\* The confirmed nodes not taken out of the remaining nodes.
prune_components_keep_all(orig, new, community_measure) ==
    LET components == Components(new)
        ids == new.ids
        new_components == components
        orig_components ==
            [c \in 1..Len(new_components) |->
                [k \in 1..Len(new_components[c]) |-> ids[new_components[c][k]]]]
        community_indices ==
            SelectSeq([c \in 1..Len(orig_components) |-> c],
                      LAMBDA c : is_community(community_measure, orig,
                                              orig_components[c]))
        orig_communities ==
            [k \in 1..Len(community_indices) |-> orig_components[community_indices[k]]]
        new_communities ==
            [k \in 1..Len(community_indices) |-> new_components[community_indices[k]]]
    IN  IF Len(community_indices) > 1
        THEN [pruned |-> TRUE,
              orig_communities |-> Some(orig_communities),
              new_communities |-> Some(new_communities),
              remaining |-> Some(SortedList(Vertices(new)))]
        ELSE [pruned |-> FALSE,
              orig_communities |-> None,
              new_communities |-> None,
              remaining |-> None]

prune_components(orig, new, community_measure) ==
    LET components == Components(new)
        ids == new.ids
        new_components == components
        orig_components ==
            [c \in 1..Len(new_components) |->
                [k \in 1..Len(new_components[c]) |-> ids[new_components[c][k]]]]
        community_indices ==
            SelectSeq([c \in 1..Len(orig_components) |-> c],
                      LAMBDA c : is_community(community_measure, orig,
                                              orig_components[c]))
        orig_communities ==
            [k \in 1..Len(community_indices) |-> orig_components[community_indices[k]]]
        new_communities ==
            [k \in 1..Len(community_indices) |-> new_components[community_indices[k]]]
    IN  IF PruneActive(community_indices)
        THEN LET all_new_community_nodes == Concat(new_communities)
                 all_new_nodes == Vertices(new)
                 all_new_remaining_nodes ==
                     SortedList(all_new_nodes \ Range(all_new_community_nodes))
             IN  [pruned |-> TRUE,
                  orig_communities |-> Some(orig_communities),
                  new_communities |-> Some(new_communities),
                  remaining |-> Some(all_new_remaining_nodes)]
        ELSE [pruned |-> FALSE,
              orig_communities |-> None,
              new_communities |-> None,
              remaining |-> None]

----------------------------------------------------------------------------
\* Input graphs.

AllEdges(k) == {e \in (0..(k - 1)) \X (0..(k - 1)) : e[1] < e[2]}

SmallGraphs ==
    UNION {{[n |-> k, es |-> es] : es \in SUBSET AllEdges(k)} : k \in 0..MaxV}

\* Two triangles {0,1,2} and {3,4,5} joined by the bridge 2-3.
TwoTriangles ==
    [n |-> 6,
     es |-> {<<0, 1>>, <<0, 2>>, <<1, 2>>, <<2, 3>>, <<3, 4>>, <<3, 5>>, <<4, 5>>}]

\* A triangle {0,1,2} and the degree-0 vertex 3.
TriangleAndIsolated == [n |-> 4, es |-> {<<0, 1>>, <<0, 2>>, <<1, 2>>}]

\* The path 0-1-2-3.
Path4 == [n |-> 4, es |-> {<<0, 1>>, <<1, 2>>, <<2, 3>>}]

\* The path 1-0-2 and the edge 3-4: every edge scores inf in the first pass.
PathAndEdge == [n |-> 5, es |-> {<<0, 1>>, <<0, 2>>, <<3, 4>>}]

\* The edges 0-1 and 2-3 and the triangle {4,5,6}: the first split confirms
\* the two edges and leaves the vertices of the triangle remaining.
EdgesAndTriangle ==
    [n |-> 7, es |-> {<<0, 1>>, <<2, 3>>, <<4, 5>>, <<4, 6>>, <<5, 6>>}]

\* The hub 0 joined to the centres 1, 4, 7, 11 of four stars, with the leaves
\* {2,3}, {5,6}, {8,9,10} and {12,13,14}.  The first pass cuts the two large
\* stars off; the hub and the two small stars are the remaining vertices.
HubAndStars ==
    [n |-> 15,
     es |-> {<<0, 1>>, <<0, 4>>, <<0, 7>>, <<0, 11>>,
             <<1, 2>>, <<1, 3>>, <<4, 5>>, <<4, 6>>,
             <<7, 8>>, <<7, 9>>, <<7, 10>>,
             <<11, 12>>, <<11, 13>>, <<11, 14>>}]

Graphs ==
    SmallGraphs \cup {TwoTriangles, TriangleAndIsolated, Path4, PathAndEdge,
                      EdgesAndTriangle, HubAndStars}

\* 'weak', 'strong', another string, and None (the CLI without -s).
Measures == {"weak", "strong", "other", "None"}

----------------------------------------------------------------------------
\* radicchi_internal: one activation record per call.

Top == stack[Len(stack)]

SetTop(f) == [stack EXCEPT ![Len(stack)] = f]

\* Lines 35-45: the cached state of a call on the working graph g.
NewFrame(g, level, community_measure, clus) ==
    [level            |-> level,
     measure          |-> community_measure,
     clustering       |-> clus,
     g                |-> g,
     degree           |-> [v \in Vertices(g) |-> Degree(g, v)],
     neighbors        |-> [v \in Vertices(g) |-> Neighbors(g, v)],
     edges            |-> g.es,
     n_components     |-> Len(Components(g)),
     communities      |-> <<>>,
     todo             |-> {},
     min_edges        |-> {},
     min_ecc          |-> None,
     orig_communities |-> <<>>,
     new_communities  |-> <<>>,
     remaining        |-> <<>>,
     i                |-> 0,
     pc               |-> "while"]

\* Any other measure taken as the default 'weak'.
MeasureClustering_default(m) ==
    IF m = "strong" THEN Some(3) ELSE Some(4)

\* The clustering argument radicchi passes for a measure; None: it raises.
MeasureClustering(m) ==
    IF m = "weak" THEN Some(4)
    ELSE IF m = "strong" THEN Some(3)
    ELSE None

\* The clustering argument of a recursive call (the parameter's default).
RecursiveClustering(f) == 3

\* The tie branch missing: the first edge seen at the minimum is kept alone.
ScanStep_first_only(f, e) ==
    LET ecc == edge_clustering_coefficient(f.clustering, e[1], e[2],
                                           f.degree, f.neighbors)
    IN  IF Not(f.min_ecc) \/ Less(ecc, f.min_ecc[1])
        THEN [f EXCEPT !.min_edges = {e}, !.min_ecc = Some(ecc)]
        ELSE f

\* Lines 52-57: the body of the scoring loop for the edge e.
ScanStep(f, e) ==
    LET ecc == edge_clustering_coefficient(f.clustering, e[1], e[2],
                                           f.degree, f.neighbors)
    IN  IF Not(f.min_ecc) \/ Less(ecc, f.min_ecc[1])
        THEN [f EXCEPT !.min_edges = {e}, !.min_ecc = Some(ecc)]
        ELSE IF ecc = f.min_ecc[1]
        THEN [f EXCEPT !.min_edges = f.min_edges \cup {e}]
        ELSE f

\* The degree of the second endpoint of a removed edge left as it was.
RemoveBatch_one_endpoint(f) ==
    [f EXCEPT
        !.g = DeleteEdges(f.g, f.min_edges),
        !.edges = f.edges \ f.min_edges,
        !.neighbors = [v \in DOMAIN f.neighbors |->
            f.neighbors[v] \ ({e[2] : e \in {x \in f.min_edges : x[1] = v}}
                              \cup {e[1] : e \in {x \in f.min_edges : x[2] = v}})],
        !.degree = [v \in DOMAIN f.degree |->
            f.degree[v] - Cardinality({e \in f.min_edges : e[1] = v})]]

\* The batch removal left out.
RemoveBatch_nothing(f) == f

\* Lines 59-64: delete the batch from g and from the cached state.
RemoveBatch(f) ==
    [f EXCEPT
        !.g = DeleteEdges(f.g, f.min_edges),
        !.edges = f.edges \ f.min_edges,
        !.neighbors = [v \in DOMAIN f.neighbors |->
            f.neighbors[v] \ ({e[2] : e \in {x \in f.min_edges : x[1] = v}}
                              \cup {e[1] : e \in {x \in f.min_edges : x[2] = v}})],
        !.degree = [v \in DOMAIN f.degree |->
            f.degree[v] - Cardinality({e \in f.min_edges : e[1] = v \/ e[2] = v})]]

\* The level-0 working graph taken to be G itself instead of a copy of it.
OriginalAfterRemoval_shared(orig, f) ==
    IF f.level = 0 THEN [orig EXCEPT !.es = orig.es \ f.min_edges] ELSE orig

\* Line 59 on the original graph: g is a copy of G (line 10) or a subgraph
\* of a copy (lines 77, 85), a graph of its own, so G keeps its edges.
OriginalAfterRemoval(orig, f) == orig

\* Lines 66-74: the split check and the pruning after a batch removal.
SplitCheck(orig, f) ==
    LET n_components_new == Len(Components(f.g))
    IN  IF n_components_new > f.n_components
        THEN LET res == prune_components(orig, f.g, f.measure)
             IN  IF res.pruned
                 THEN [f EXCEPT !.n_components = n_components_new,
                                !.orig_communities = res.orig_communities[1],
                                !.new_communities = res.new_communities[1],
                                !.remaining = res.remaining[1],
                                !.i = 0,
                                !.pc = "for"]
                 ELSE [f EXCEPT !.n_components = n_components_new,
                                !.pc = "while"]
        ELSE [f EXCEPT !.pc = "while"]

\* Lines 79-82: what the call for the community at index i returned.
MergeCommunity(f, subcommunities) ==
    [f EXCEPT
        !.communities =
            IF Len(subcommunities) = 0
            THEN Append(f.communities, f.orig_communities[f.i + 1])
            ELSE f.communities \o subcommunities,
        !.i = f.i + 1,
        !.pc = "for"]

\* The break of line 91 missing: the call goes back to its loop head.
MergeRemaining_no_break(f, subcommunities) ==
    LET orig_remaining == [k \in 1..Len(f.remaining) |-> f.g.ids[f.remaining[k]]]
        clustered == Concat(subcommunities)
        isolated_remaining ==
            SelectSeq(orig_remaining, LAMBDA x : x \notin Range(clustered))
    IN  [f EXCEPT
            !.communities = f.communities \o
                [k \in 1..Len(isolated_remaining) |-> <<isolated_remaining[k]>>],
            !.pc = "while"]

\* Lines 84-91: what the call for the remaining vertices returned.
MergeRemaining(f, subcommunities) ==
    LET orig_remaining == [k \in 1..Len(f.remaining) |-> f.g.ids[f.remaining[k]]]
        clustered == Concat(subcommunities)
        isolated_remaining ==
            SelectSeq(orig_remaining, LAMBDA x : x \notin Range(clustered))
    IN  [f EXCEPT
            !.communities = f.communities \o
                [k \in 1..Len(isolated_remaining) |-> <<isolated_remaining[k]>>],
            !.pc = "return"]

\* Lines 20-23: the membership list of a list of communities.
RECURSIVE AssignLabels(_, _, _)
AssignLabels(c, res, k) ==
    IF k > Len(res) THEN c
    ELSE AssignLabels([v \in DOMAIN c |-> IF v \in Range(res[k]) THEN k - 1 ELSE c[v]],
                      res, k + 1)

----------------------------------------------------------------------------
\* Actions.

frame_unchanged == UNCHANGED <<G, G_entry, measure, pc, result, clustering,
                               run, first, nodes, outcome>>

\* Lines 10-18: copy, tag, and dispatch on the measure.
radicchi ==
    /\ pc = "start"
    /\ LET g == [n |-> G.n, es |-> G.es, ids |-> [v \in Vertices(G) |-> v]]
           clus == MeasureClustering(measure)
       IN  IF clus # None
           THEN /\ stack' = <<NewFrame(g, 0, measure, clus[1])>>
                /\ pc' = "internal"
           ELSE /\ stack' = stack
                /\ pc' = "raised"
    /\ UNCHANGED <<G, G_entry, measure, result, clustering, run, first,
                   nodes, outcome>>

\* Lines 46-50: the loop head.
While ==
    /\ pc = "internal"
    /\ Top.pc = "while"
    /\ stack' = SetTop(
         IF Cardinality(Top.edges) = 0
         THEN [Top EXCEPT !.pc = "return"]
         ELSE [Top EXCEPT !.min_edges = {}, !.min_ecc = None,
                          !.todo = Top.edges, !.pc = "scan"])
    /\ frame_unchanged

\* Lines 51-57: one iteration of the scoring loop, in any order of the set.
Scan ==
    /\ pc = "internal"
    /\ Top.pc = "scan"
    /\ \E e \in Top.todo :
         stack' = SetTop([ScanStep(Top, e) EXCEPT !.todo = Top.todo \ {e}])
    /\ frame_unchanged

\* Lines 59-74: the batch removal, the split check and the pruning.
Remove ==
    /\ pc = "internal"
    /\ Top.pc = "scan"
    /\ Top.todo = {}
    /\ G' = OriginalAfterRemoval(G, Top)
    /\ stack' = SetTop(SplitCheck(G', RemoveBatch(Top)))
    /\ UNCHANGED <<G_entry, measure, pc, result, clustering, run, first,
                   nodes, outcome>>

\* Lines 76-78: the recursive call for the next confirmed community.
CallCommunity ==
    /\ pc = "internal"
    /\ Top.pc = "for"
    /\ Top.i < Len(Top.new_communities)
    /\ LET s == SubgraphWithIds(Top.g, Top.new_communities[Top.i + 1])
       IN  stack' = Append(SetTop([Top EXCEPT !.pc = "community"]),
                           NewFrame(s, Top.level + 1, Top.measure,
                                    RecursiveClustering(Top)))
    /\ frame_unchanged

\* Lines 84-86: the recursive call for the remaining vertices.
CallRemaining ==
    /\ pc = "internal"
    /\ Top.pc = "for"
    /\ Top.i >= Len(Top.new_communities)
    /\ LET r == SubgraphWithIds(Top.g, Top.remaining)
       IN  stack' = Append(SetTop([Top EXCEPT !.pc = "remaining"]),
                           NewFrame(r, Top.level + 1, Top.measure,
                                    RecursiveClustering(Top)))
    /\ frame_unchanged

\* Line 93 into lines 78-82 or 86-91 of the caller.
Return ==
    /\ pc = "internal"
    /\ Top.pc = "return"
    /\ Len(stack) > 1
    /\ LET caller == stack[Len(stack) - 1]
           rest == SubSeq(stack, 1, Len(stack) - 2)
       IN  stack' = Append(rest,
                IF caller.pc = "community"
                THEN MergeCommunity(caller, Top.communities)
                ELSE MergeRemaining(caller, Top.communities))
    /\ frame_unchanged

\* Line 93 into lines 14/16 of radicchi.
ReturnToRadicchi ==
    /\ pc = "internal"
    /\ Top.pc = "return"
    /\ Len(stack) = 1
    /\ result' = Some(Top.communities)
    /\ stack' = <<>>
    /\ pc' = "labels"
    /\ UNCHANGED <<G, G_entry, measure, clustering, run, first, nodes, outcome>>

\* Lines 20-25: the membership list and the VertexClustering.
Labels ==
    /\ pc = "labels"
    /\ clustering' = Some(AssignLabels([v \in Vertices(G) |-> 0], result[1], 1))
    /\ pc' = "done"
    /\ UNCHANGED <<G, G_entry, measure, stack, result, run, first, nodes, outcome>>

\* A second call of radicchi on the same graph, with either valid measure.
Again ==
    /\ pc = "done"
    /\ run = 1
    /\ \E m \in {"weak", "strong"} : measure' = m
    /\ first' = Some([measure |-> measure, clustering |-> clustering[1]])
    /\ run' = 2
    /\ pc' = "start"
    /\ stack' = <<>>
    /\ result' = None
    /\ clustering' = None
    /\ UNCHANGED <<G, G_entry, nodes, outcome>>

Init ==
    /\ G \in Graphs
    /\ G_entry = G
    /\ measure \in Measures
    /\ pc = "start"
    /\ stack = <<>>
    /\ result = None
    /\ clustering = None
    /\ run = 1
    /\ first = None
    /\ nodes = <<>>
    /\ outcome = None

Next ==
    \/ radicchi
    \/ While
    \/ Scan
    \/ Remove
    \/ CallCommunity
    \/ CallRemaining
    \/ Return
    \/ ReturnToRadicchi
    \/ Labels
    \/ Again

Spec == Init /\ [][Next]_vars

----------------------------------------------------------------------------
\* Direct calls of the community predicates, on any sorted list of vertices
\* of the graph (the empty list included).

\* is_strong_community(G, nodes) returns or raises.
CallStrong ==
    /\ pc = "predicate"
    /\ outcome = None
    /\ outcome' = Some([predicate |-> "strong", raised |-> FALSE,
                        value |-> is_strong_community(G, nodes)])
    /\ UNCHANGED <<G, G_entry, measure, pc, stack, result, clustering, run,
                   first, nodes>>

\* is_weak_community(G, nodes) returns or raises.
CallWeak ==
    /\ pc = "predicate"
    /\ outcome = None
    /\ outcome' = Some([predicate |-> "weak", raised |-> FALSE,
                        value |-> is_weak_community(G, nodes)])
    /\ UNCHANGED <<G, G_entry, measure, pc, stack, result, clustering, run,
                   first, nodes>>

PredInit ==
    /\ G \in Graphs
    /\ G_entry = G
    /\ nodes \in {SortedList(S) : S \in SUBSET Vertices(G)}
    /\ outcome = None
    /\ measure = "None"
    /\ pc = "predicate"
    /\ stack = <<>>
    /\ result = None
    /\ clustering = None
    /\ run = 1
    /\ first = None

PredNext == CallStrong \/ CallWeak

PredSpec == PredInit /\ [][PredNext]_vars

----------------------------------------------------------------------------
\* Vocabulary of the properties.

ValidMeasure == measure \in {"weak", "strong"}

\* The communities of a membership list (the VertexClustering).
Partition(c) == {{v \in DOMAIN c : c[v] = l} : l \in {c[v] : v \in DOMAIN c}}

\* Every vertex of S is a member of exactly one community of the list, and
\* once in it.
IsPartitionOf(list, S) ==
    /\ \A k \in 1..Len(list) : Range(list[k]) \subseteq S
    /\ \A v \in S :
        Cardinality(UNION {{<<k, j>> : j \in {x \in 1..Len(list[k]) : list[k][x] = v}} :
                             k \in 1..Len(list)}) = 1

Bridge == <<2, 3>>

BothTriangles == <<(<<0, 1, 2>>), (<<3, 4, 5>>)>>

----------------------------------------------------------------------------
\* C1: the list the level-0 call of radicchi_internal returns is a
\* partition of the original vertex set: every original vertex id appears
\* in exactly one community of the list.
C1_Level0ListIsPartition ==
    pc \in {"labels", "done"} => IsPartitionOf(result[1], Vertices(G))

\* C2: on a graph with n >= 1 vertices and no edge, radicchi yields n
\* communities: the labels of the vertices are pairwise distinct.
C2_EdgelessGivesSingletons ==
    (pc = "done" /\ G.n >= 1 /\ G.es = {}) =>
        /\ Cardinality(Partition(clustering[1])) = G.n
        /\ \A u, v \in Vertices(G) :
               u # v => clustering[1][u] # clustering[1][v]

\* C3: on a triangle plus one degree-0 vertex radicchi produces exactly the
\* two communities {0,1,2} and {3}.
C3_TriangleAndSingleton ==
    (pc = "done" /\ G = TriangleAndIsolated) =>
        Partition(clustering[1]) = {{0, 1, 2}, {3}}

\* C4: in 'strong' mode on two triangles joined by the bridge 2-3, the first
\* scoring pass selects the bridge alone; its removal is the only removal
\* of the level-0 call and triggers an active prune that confirms both
\* triangles and leaves nothing remaining; the result is exactly the two
\* communities {0,1,2} and {3,4,5}.
C4_TwoTrianglesStrong ==
    (G = TwoTriangles /\ measure = "strong") =>
        /\ \A k \in 1..Len(stack) :
             stack[k].level = 0 =>
               /\ (stack[k].pc = "scan" /\ stack[k].todo = {}
                   /\ stack[k].edges = G.es)
                     => stack[k].min_edges = {Bridge}
               /\ stack[k].edges # G.es =>
                     /\ stack[k].edges = G.es \ {Bridge}
                     /\ stack[k].pc \in {"for", "community", "remaining", "return"}
                     /\ stack[k].orig_communities = BothTriangles
                     /\ stack[k].new_communities = BothTriangles
                     /\ stack[k].remaining = <<>>
        /\ pc \in {"labels", "done"} => result = Some(BothTriangles)
        /\ pc = "done" => Partition(clustering[1]) = {{0, 1, 2}, {3, 4, 5}}

C4_Witness ==
    /\ G = TwoTriangles
    /\ measure = "strong"
    /\ pc = "done"
    /\ result = Some(BothTriangles)

\* C5: two runs on the same graph with the same measure, whatever the order
\* in which each scoring loop iterates the edge set, end with identical
\* partitions.
C5_OrderIndependent ==
    (pc = "done" /\ run = 2 /\ first[1].measure = measure) =>
        Partition(clustering[1]) = Partition(first[1].clustering)

\* Two finished runs on a graph whose first pass has three edges tied at the
\* minimum, to be iterated in any order.
C5_Witness ==
    /\ pc = "done"
    /\ run = 2
    /\ first[1].measure = measure
    /\ G = PathAndEdge

\* C6: with a measure other than 'weak' or 'strong' (None included) the call
\* ends in an error at once: no call of radicchi_internal, hence no scoring,
\* removal or pruning, no result, no label assignment, and the input graph
\* is what it was at entry.
C6_InvalidMeasureRejected ==
    ~ValidMeasure =>
        /\ pc \in {"start", "raised"}
        /\ stack = <<>>
        /\ result = None
        /\ clustering = None
        /\ G = G_entry

C6_Witness ==
    /\ measure = "None"
    /\ pc = "raised"
    /\ G.es # {}

\* C7: the scorer/predicate pair bound at entry (the square-based scorer
\* with the weak predicate, the triangle-based scorer with the strong
\* predicate) is the pair of every call of radicchi_internal at every level.
C7_PairingHeldFixed ==
    \A k \in 1..Len(stack) :
        /\ stack[k].measure = measure
        /\ stack[k].clustering = (IF measure = "weak" THEN 4 ELSE 3)

\* C8: in the label assignment every original vertex has exactly one label,
\* and v has label i iff v is a member of the community at position i
\* (zero-based) of the top-level list.
C8_LabelIffMember ==
    pc = "done" =>
        /\ DOMAIN clustering[1] = Vertices(G)
        /\ \A v \in Vertices(G) : \A i \in 0..G.n :
             (clustering[1][v] = i) <=>
                (i < Len(result[1]) /\ v \in Range(result[1][i + 1]))

\* C9: the strong or the weak predicate evaluated on an empty vertex subset
\* ends in an error; it returns neither true nor false.
C9_EmptySubsetIsError ==
    (outcome # None /\ nodes = <<>>) => outcome[1].raised

\* C10: there is a graph on which the 'weak' and the 'strong' run return
\* different partitions: the path 0-1-2-3 is one.
C10_ModesDifferOnPath ==
    (pc = "done" /\ run = 2 /\ G = Path4
        /\ first[1].measure = "weak" /\ measure = "strong") =>
            Partition(first[1].clustering) # Partition(clustering[1])

C10_Witness ==
    /\ pc = "done"
    /\ run = 2
    /\ G = Path4
    /\ first[1].measure = "weak"
    /\ measure = "strong"
    /\ Partition(first[1].clustering) = {{0, 1}, {2, 3}}
    /\ Partition(clustering[1]) = {{0, 1, 2, 3}}

----------------------------------------------------------------------------
\* Vocabulary of the properties of a call of radicchi_internal.

Frames == {stack[k] : k \in 1..Len(stack)}

\* The call at the top has scored every current edge and is about to remove
\* its batch.
ScanComplete == pc = "internal" /\ Top.pc = "scan" /\ Top.todo = {}

\* The score of the edge e on the cached state of the call f.
Score(f, e) ==
    edge_clustering_coefficient(f.clustering, e[1], e[2], f.degree, f.neighbors)

\* The current edges of f whose score no current edge undercuts.
MinScoreEdges(f) ==
    {e \in f.edges : \A x \in f.edges : ~Less(Score(f, x), Score(f, e))}

\* C11: in every pass with a nonempty edge set the edges removed are exactly
\* the current edges whose score is the minimum over the current edges
\* (inf included): at least one, every tie, none with a larger score.
C11_BatchIsMinimum ==
    [][ScanComplete =>
          LET removed == Top.edges \ stack'[Len(stack)].edges
          IN  /\ Len(stack') = Len(stack)
              /\ removed # {}
              /\ removed = MinScoreEdges(Top)
              /\ stack'[Len(stack)].g.es = Top.g.es \ removed]_vars

\* A pass has removed several edges tied at the minimum and left edges of a
\* larger score behind, and another has removed several edges tied at inf.
C11_Witness ==
    \E f \in Frames :
        /\ f.pc = "while"
        /\ Cardinality(f.min_edges) >= 2
        /\ f.min_edges \cap f.edges = {}
        /\ f.edges # {}
        /\ \A e \in f.edges : Score(f, e) = Inf

\* The cached state of f is consistent and matches its working graph.
CacheConsistent(f) ==
    /\ DOMAIN f.degree = Vertices(f.g)
    /\ DOMAIN f.neighbors = Vertices(f.g)
    /\ \A v \in Vertices(f.g) :
        /\ f.degree[v] = Cardinality(f.neighbors[v])
        /\ \A u \in Vertices(f.g) :
             u \in f.neighbors[v] <=> (<<u, v>> \in f.edges \/ <<v, u>> \in f.edges)
    /\ f.edges = f.g.es

\* C12: at the start of every loop iteration and after every batch removal,
\* in every call, degree[v] = |neighbors[v]|, u is in neighbors[v] iff the
\* edge {u,v} is in the cached edge set, and the cached edge set is the edge
\* set of the working graph g.
C12_CacheConsistent == \A f \in Frames : CacheConsistent(f)

\* A call back at its loop head after a removal that left edges behind.
C12_Witness ==
    \E f \in Frames :
        /\ f.pc = "while"
        /\ f.min_edges # {}
        /\ f.min_edges \cap f.edges = {}
        /\ f.edges # {}

\* The components of the working graph g whose original ids satisfy the
\* predicate of the measure m against the original graph.
QualifyingComponents(orig, g, m) ==
    {c \in Range(Components(g)) :
        is_community(m, orig, [k \in 1..Len(c) |-> g.ids[c[k]]])}

\* The lists of ls and the list rest are pairwise disjoint as sets.
PairwiseDisjoint(ls, rest) ==
    /\ \A a, b \in 1..Len(ls) : a # b => Range(ls[a]) \cap Range(ls[b]) = {}
    /\ \A a \in 1..Len(ls) : Range(ls[a]) \cap Range(rest) = {}

\* C13: prune_components reports pruning as active iff at least two
\* components of the working graph satisfy the predicate on their original
\* ids against the original graph; when active, the confirmed working groups
\* and the remaining vertices are pairwise disjoint and together the vertex
\* set of the working graph; when the removal does not split the graph or
\* fewer than two components qualify, the caller makes no recursive call and
\* is back at its loop head with the new component count as its baseline.
C13_PruneActiveIff ==
    [][ScanComplete =>
          LET g2 == DeleteEdges(Top.g, Top.min_edges)
              q == QualifyingComponents(G, g2, Top.measure)
              split == Len(Components(g2)) > Top.n_components
              res == prune_components(G, g2, Top.measure)
              after == stack'[Len(stack)]
          IN  /\ res.pruned <=> Cardinality(q) >= 2
              /\ res.pruned =>
                   /\ Range(res.new_communities[1]) = q
                   /\ PairwiseDisjoint(res.new_communities[1], res.remaining[1])
                   /\ UNION {Range(c) : c \in Range(res.new_communities[1])}
                        \cup Range(res.remaining[1]) = Vertices(g2)
              /\ Len(stack') = Len(stack)
              /\ after.pc = "for" <=> (split /\ Cardinality(q) >= 2)
              /\ after.pc = "for" =>
                   /\ after.new_communities = res.new_communities[1]
                   /\ after.remaining = res.remaining[1]
              /\ after.pc # "for" =>
                   /\ after.pc = "while"
                   /\ after.communities = Top.communities
                   /\ after.n_components = Len(Components(g2))]_vars

\* A split has just been pruned actively, with vertices left remaining.
C13_Witness ==
    \E f \in Frames :
        /\ f.pc = "for"
        /\ f.i = 0
        /\ Len(f.new_communities) >= 2
        /\ f.remaining # <<>>

\* The call f has had an active prune.
Pruned(f) == f.new_communities # <<>>

\* C14: a call returns the empty list iff its edge set was exhausted without
\* any active prune; a call that has had an active prune returns a nonempty
\* list, and scores and removes no edge at its level afterwards.
C14_EmptyIffExhausted ==
    /\ [](\A f \in Frames :
            /\ f.pc = "return" =>
                 /\ f.communities = <<>> <=> ~Pruned(f)
                 /\ ~Pruned(f) => f.edges = {}
            /\ Pruned(f) => f.pc \in {"for", "community", "remaining", "return"})
    /\ [][\A k \in 1..Len(stack) :
            (k <= Len(stack') /\ Pruned(stack[k])) =>
                /\ Pruned(stack'[k])
                /\ stack'[k].edges = stack[k].edges
                /\ stack'[k].g = stack[k].g
                /\ stack'[k].min_edges = stack[k].min_edges
                /\ stack'[k].min_ecc = stack[k].min_ecc]_vars

\* A call is about to return the list it assembled after an active prune,
\* with edges it never scored again left in its working graph.
C14_Witness ==
    \E f \in Frames :
        /\ f.pc = "return"
        /\ Pruned(f)
        /\ Len(f.communities) >= 2
        /\ f.edges # {}

\* The original ids of the working graph of the call f.
OriginalIds(f) == {f.g.ids[v] : v \in Vertices(f.g)}

\* C15: whenever a call returns a nonempty list, its groups together contain
\* every original id of the call's working graph.
C15_ReturnedGroupsCover ==
    \A f \in Frames :
        (f.pc = "return" /\ f.communities # <<>>) =>
            OriginalIds(f) \subseteq
                UNION {Range(f.communities[i]) : i \in 1..Len(f.communities)}

\* The cached state and the working graph of the call f.
GraphState(f) == <<f.g, f.degree, f.neighbors, f.edges, f.n_components>>

\* C16: the graph passed to radicchi is never modified: at every point of a
\* run, successful or failing, it is what it was at entry; and no step of a
\* call changes the cached state or the working graph of a call below it on
\* the stack (its parent and ancestors).
C16_OriginalAndParentsUntouched ==
    /\ [](G = G_entry)
    /\ [][\A k \in 1..Len(stack) :
            (k < Len(stack) /\ k <= Len(stack')) =>
                GraphState(stack'[k]) = GraphState(stack[k])]_vars

\* A recursive call has removed edges of its working graph under a parent
\* whose working graph has lost edges that G still has.
C16_Witness ==
    /\ Len(stack) >= 2
    /\ Top.pc = "while"
    /\ Top.min_edges # {}
    /\ Top.g.es # Top.min_edges
    /\ stack[1].g.es # G.es
    /\ G = G_entry

\* The number of places of the list of lists ls that hold v.
Occurrences(ls, v) ==
    Cardinality(UNION {{<<k, j>> : j \in {x \in 1..Len(ls[k]) : ls[k][x] = v}} :
                         k \in 1..Len(ls)})

\* Every group of ls is nonempty and made of ids of S, and no id is in ls
\* twice.
DisjointGroupsOf(ls, S) ==
    /\ \A k \in 1..Len(ls) : ls[k] # <<>> /\ Range(ls[k]) \subseteq S
    /\ \A v \in S : Occurrences(ls, v) <= 1

\* C17: in the list a call of radicchi_internal returns, every group is
\* nonempty and holds only original ids of the call's working graph, and no
\* original id occurs in two groups or twice in one.
C17_GroupsDisjoint ==
    /\ \A f \in Frames :
         f.pc = "return" => DisjointGroupsOf(f.communities, OriginalIds(f))
    /\ result # None => DisjointGroupsOf(result[1], Vertices(G))

\* A call returns confirmed communities and singletons of remaining
\* vertices.
C17_Witness ==
    \E f \in Frames :
        /\ f.pc = "return"
        /\ Len(f.communities) >= 3
        /\ \E k \in 1..Len(f.communities) : Len(f.communities[k]) = 1
        /\ \E k \in 1..Len(f.communities) : Len(f.communities[k]) >= 2

\* The position of radicchi: 3 before the call, 2 inside radicchi_internal,
\* 1 at the labels, 0 once it returned or raised.
PcRank ==
    CASE pc = "start" -> 3
      [] pc = "internal" -> 2
      [] pc = "labels" -> 1
      [] OTHER -> 0

\* How far the call f is from its return, as a triple compared from the
\* left: the edges left to remove, the position in the pass or in the loop
\* over the confirmed communities, the edges left to score in the pass.
FrameRank(f) ==
    <<Cardinality(f.edges),
      CASE f.pc = "while" -> 3
        [] f.pc = "scan" -> 2
        [] f.pc = "for" -> 2 * (Len(f.new_communities) - f.i) + 3
        [] f.pc = "community" -> 2 * (Len(f.new_communities) - f.i) + 2
        [] f.pc = "remaining" -> 1
        [] OTHER -> 0,
      Cardinality(f.todo)>>

\* The rank of a state: PcRank, then the triples of the calls on the stack,
\* the outermost first.
Rank ==
    [i \in 1..(3 * Len(stack) + 1) |->
        IF i = 1 THEN PcRank
        ELSE FrameRank(stack[((i - 2) \div 3) + 1])[((i - 2) % 3) + 1]]

\* s comes before t in the lexicographic order (a proper prefix first).
LexLess(s, t) ==
    \E i \in 1..Len(t) :
        /\ \A j \in 1..(i - 1) : j <= Len(s) /\ s[j] = t[j]
        /\ i > Len(s) \/ s[i] < t[i]

\* Some step of the run is possible: the guards of the steps, taken
\* together.
CanStep ==
    \/ pc = "start"
    \/ pc = "labels" /\ result # None
    \/ /\ pc = "internal"
       /\ stack # <<>>
       /\ Top.pc \in {"while", "scan", "for", "return"}

\* C18: every call of radicchi with a valid measure terminates: each pass
\* strictly decreases the number of edges of the working graph, each
\* recursive call works on strictly fewer vertices than its parent (so the
\* stack is never deeper than the graph has vertices, plus one), every step
\* of a run strictly decreases the rank of the state in a well-founded
\* order, and a run that has not ended with its result can take a step.
C18_Terminates ==
    /\ [][ScanComplete =>
            /\ Cardinality(stack'[Len(stack)].edges) < Cardinality(Top.edges)
            /\ Cardinality(stack'[Len(stack)].g.es) < Cardinality(Top.g.es)]_vars
    /\ [](/\ \A k \in 2..Len(stack) : stack[k].g.n < stack[k - 1].g.n
          /\ Len(stack) <= G.n + 1)
    /\ [][run' = run => LexLess(Rank', Rank)]_vars
    /\ [](ValidMeasure =>
            \/ CanStep
            \/ pc = "done" /\ result # None /\ clustering # None)

\* A run that made recursive calls two levels deep has ended with its
\* result.
C18_Witness ==
    /\ pc = "done"
    /\ ValidMeasure
    /\ Len(result[1]) >= 2
    /\ G = HubAndStars

====
